---- MODULE Spec2Model ----
(***************************************************************************)
(* Model of the kodak image library (src/src/lib.rs): the geometry         *)
(* primitives Loc, Dim, Region and the Image operations blank,             *)
(* blank_with_colour, get_pixel, fill, fill_region, crop_unclamped, crop   *)
(* and overlay.                                                            *)
(*                                                                         *)
(* Coordinates are u32 in the source.  The model keeps the word semantics  *)
(* with a scaled word: values live in 0..U32Max and arithmetic that leaves *)
(* that range panics in a build with overflow checks ("debug") and wraps   *)
(* modulo U32Mod in a build without them ("release").  assert!, unwrap,    *)
(* division by zero and slice indexing panic in both builds.               *)
(***************************************************************************)
EXTENDS Integers, Sequences, FiniteSets, TLC

VARIABLES build, img, pc, call, ret

vars == <<build, img, pc, call, ret>>

\* ---------------------------------------------------------------- bounds
\* Scaled stand-in for 2^32, the number of u32 values.
U32Mod == 16
\* Largest image width / height / pixel count handed to the constructors.
MaxW == 3
MaxH == 3
MaxPixels == 6
\* Largest coordinate of a Loc argument; largest small side of a Dim argument.
MaxLoc == 1
MaxSide == 3

U32Max == U32Mod - 1

Builds == {"debug", "release"}

\* Arithmetic overflow panics only when overflow checks are compiled in.
overflow_checks == build = "debug"

Ovf(n) == n < 0 \/ n > U32Max

Wrap(n) == n % U32Mod

\* ------------------------------------------------------------ value types
BLACK == "BLACK"
WHITE == "WHITE"
Colours == {BLACK, WHITE}

MkLoc(x, y) == [x |-> x, y |-> y]
MkDim(w, h) == [w |-> w, h |-> h]
MkRegion(l, d) == [l |-> l, d |-> d]
MkImage(w, h, p) == [width |-> w, height |-> h, pixels |-> p]

\* Loc::from_index: x = i % w, y = i / w; division by zero panics.
from_index_panics(idx, dimension) == dimension.w = 0 \/ idx > U32Max

\* Variant of from_index with the quotient and the remainder exchanged.
from_index_swapped(idx, dimension) ==
    MkLoc(idx \div dimension.w, idx % dimension.w)

from_index(idx, dimension) ==
    MkLoc(idx % dimension.w, idx \div dimension.w)

\* Loc::as_index: x + y * w in u32, then widened to usize.
as_index_panics(loc, dimension) ==
    overflow_checks /\ (Ovf(loc.y * dimension.w) \/ Ovf(loc.x + Wrap(loc.y * dimension.w)))

as_index(loc, dimension) == Wrap(loc.x + Wrap(loc.y * dimension.w))

\* Loc::inside_region: x >= cx && x < cx + w && y >= cy && y < cy + h,
\* evaluated left to right with short-circuit, the sums in u32.
inside_region_panics(loc, region) ==
    /\ overflow_checks
    /\ loc.x >= region.l.x
    /\ \/ Ovf(region.l.x + region.d.w)
       \/ /\ loc.x < region.l.x + region.d.w
          /\ loc.y >= region.l.y
          /\ Ovf(region.l.y + region.d.h)

\* Variant of inside_region that is inclusive on the right as well.
inside_region_right_inclusive(loc, region) ==
    /\ loc.x >= region.l.x
    /\ loc.x <= Wrap(region.l.x + region.d.w)
    /\ loc.y >= region.l.y
    /\ loc.y <= Wrap(region.l.y + region.d.h)

inside_region(loc, region) ==
    /\ loc.x >= region.l.x
    /\ loc.x < Wrap(region.l.x + region.d.w)
    /\ loc.y >= region.l.y
    /\ loc.y < Wrap(region.l.y + region.d.h)

\* impl Add<Dim> for Loc
LocAddDim_panics(loc, rhs) ==
    overflow_checks /\ (Ovf(loc.x + rhs.w) \/ Ovf(loc.y + rhs.h))

LocAddDim(loc, rhs) == MkLoc(Wrap(loc.x + rhs.w), Wrap(loc.y + rhs.h))

\* impl Add for Loc
LocAddLoc_panics(loc, rhs) ==
    overflow_checks /\ (Ovf(loc.x + rhs.x) \/ Ovf(loc.y + rhs.y))

LocAddLoc(loc, rhs) == MkLoc(Wrap(loc.x + rhs.x), Wrap(loc.y + rhs.y))

square(side) == MkDim(side, side)

from_top_left(dim) == MkRegion(MkLoc(0, 0), dim)

\* ---------------------------------------------------------------- results
NoImage == MkImage(0, 0, <<>>)

RetOk(image) == [st |-> "ok", img |-> image, px |-> BLACK]
RetPx(colour) == [st |-> "ok", img |-> NoImage, px |-> colour]
RetErr == [st |-> "err", img |-> NoImage, px |-> BLACK]
RetPanic == [st |-> "panic", img |-> NoImage, px |-> BLACK]
NoRet == [st |-> "none", img |-> NoImage, px |-> BLACK]

\* ----------------------------------------------------------------- Image
get_dimensions(image) == MkDim(image.width, image.height)

as_region(image) == MkRegion(MkLoc(0, 0), get_dimensions(image))

\* vec![c; (width * height).try_into().unwrap()]
blank_with_colour(dimension, colour) ==
    IF overflow_checks /\ Ovf(dimension.w * dimension.h)
    THEN RetPanic
    ELSE RetOk(MkImage(dimension.w, dimension.h,
                       [i \in 1..Wrap(dimension.w * dimension.h) |-> colour]))

blank(dimension) == blank_with_colour(dimension, BLACK)

get_pixel(image, loc) ==
    IF ~inside_region(loc, as_region(image))
    THEN RetErr
    ELSE IF as_index_panics(loc, get_dimensions(image))
    THEN RetPanic
    ELSE LET i == as_index(loc, get_dimensions(image))
         IN  IF i >= Len(image.pixels)
             THEN RetPanic
             ELSE RetPx(image.pixels[i + 1])

fill(image, colour) ==
    RetOk(MkImage(image.width, image.height,
                  [i \in 1..Len(image.pixels) |-> colour]))

\* A pixel whose classification panics aborts the whole map.
PixelScanPanics(image, region) ==
    \E i \in 1..Len(image.pixels) :
        \/ from_index_panics(i - 1, get_dimensions(image))
        \/ inside_region_panics(from_index(i - 1, get_dimensions(image)), region)

fill_region(image, region, colour) ==
    IF PixelScanPanics(image, region)
    THEN RetPanic
    ELSE RetOk(MkImage(image.width, image.height,
            [i \in 1..Len(image.pixels) |->
                IF inside_region(from_index(i - 1, get_dimensions(image)), region)
                THEN colour
                ELSE image.pixels[i]]))

\* The source pixels whose location lies inside the region, in index order.
FilterInside(image, region) ==
    LET idxs == [i \in 1..Len(image.pixels) |-> i]
        keep == SelectSeq(idxs,
                    LAMBDA i : inside_region(
                        from_index(i - 1, get_dimensions(image)), region))
    IN  [k \in 1..Len(keep) |-> image.pixels[keep[k]]]

crop_unclamped(image, region) ==
    IF ~inside_region(region.l, as_region(image))
    THEN RetPanic
    ELSE IF LocAddDim_panics(region.l, region.d)
    THEN RetPanic
    ELSE IF ~inside_region(LocAddDim(region.l, region.d), as_region(image))
    THEN RetPanic
    ELSE IF PixelScanPanics(image, region)
    THEN RetPanic
    ELSE RetOk(MkImage(region.d.w, region.d.h, FilterInside(image, region)))

crop(image, region) ==
    IF ~inside_region(region.l, as_region(image))
    THEN RetErr
    ELSE IF LocAddDim_panics(region.l, region.d)
    THEN RetPanic
    ELSE IF ~inside_region(LocAddDim(region.l, region.d), as_region(image))
    THEN IF overflow_checks
            /\ (Ovf(image.width - region.d.w) \/ Ovf(image.height - region.d.h))
         THEN RetPanic
         ELSE crop_unclamped(image,
                MkRegion(region.l, MkDim(Wrap(image.width - region.d.w),
                                         Wrap(image.height - region.d.h))))
    ELSE crop_unclamped(image, region)

\* One iteration of the paste loop: where pixel p of the cropped overlay lands.
PasteLoc(cropped, offset, p) ==
    LocAddLoc(from_index(p, get_dimensions(cropped)), offset)

\* Variant of PasteIndex that uses the row length of the cropped overlay.
PasteIndex_cropped_stride(image, cropped, offset, p) ==
    as_index(PasteLoc(cropped, offset, p), get_dimensions(cropped))

PasteIndex(image, cropped, offset, p) ==
    as_index(PasteLoc(cropped, offset, p), get_dimensions(image))

PastePanics(image, cropped, offset, p) ==
    \/ from_index_panics(p, get_dimensions(cropped))
    \/ LocAddLoc_panics(from_index(p, get_dimensions(cropped)), offset)
    \/ as_index_panics(PasteLoc(cropped, offset, p), get_dimensions(image))
    \/ PasteIndex(image, cropped, offset, p) >= Len(image.pixels)

\* The working copy after the loop: a later write to an index wins.
Paste(image, cropped, offset) ==
    [t \in 1..Len(image.pixels) |->
        LET ps == {p \in 0..(Len(cropped.pixels) - 1) :
                        PasteIndex(image, cropped, offset, p) = t - 1}
        IN  IF ps = {}
            THEN image.pixels[t]
            ELSE cropped.pixels[(CHOOSE p \in ps : \A q \in ps : q <= p) + 1]]

overlay(image, other, offset) ==
    IF overflow_checks
       /\ (Ovf(image.width - offset.x) \/ Ovf(image.height - offset.y))
    THEN RetPanic
    ELSE LET crop_dims == MkDim(Wrap(image.width - offset.x),
                                Wrap(image.height - offset.y))
             c == crop(other, from_top_left(crop_dims))
         IN  IF c.st # "ok"
             THEN RetPanic
             ELSE IF \E p \in 0..(Len(c.img.pixels) - 1) :
                        PastePanics(image, c.img, offset, p)
             THEN RetPanic
             ELSE RetOk(MkImage(image.width, image.height,
                                Paste(image, c.img, offset)))

\* ---------------------------------------------------------------- inputs
Sides == (0..MaxSide) \cup {U32Max}
Locs == {MkLoc(x, y) : x \in 0..MaxLoc, y \in 0..MaxLoc}
Dims == {MkDim(w, h) : w \in Sides, h \in Sides}
Regions == {MkRegion(l, d) : l \in Locs, d \in Dims}

\* Dimensions handed to the constructors.
ImageDims == {d \in {MkDim(w, h) : w \in 0..MaxW, h \in 0..MaxH} :
                d.w * d.h <= MaxPixels}

\* Overlay arguments: a solid image whose first pixel may be repainted, as
\* blank_with_colour(d, c1).fill_region(Region { l: (0,0), d: (1,1) }, c2) builds.
OtherDims == {d \in ImageDims : d.w * d.h > 0} \cup {MkDim(0, 0)}

OtherImages ==
    {MkImage(d.w, d.h, [i \in 1..(d.w * d.h) |-> IF i = 1 THEN c2 ELSE c1]) :
        d \in OtherDims, c1 \in Colours, c2 \in Colours}

NoCall == [op |-> "none", dimension |-> MkDim(0, 0), colour |-> BLACK,
           region |-> from_top_left(MkDim(0, 0)), loc |-> MkLoc(0, 0),
           other |-> NoImage]

\* ---------------------------------------------------------------- actions
Init ==
    /\ build \in Builds
    /\ img = NoImage
    /\ pc = "ready"
    /\ call = NoCall
    /\ ret = NoRet

Do(c, r) ==
    /\ pc = "ready"
    /\ pc' = "done"
    /\ call' = c
    /\ ret' = r
    /\ UNCHANGED <<build, img>>

Blank ==
    \E d \in ImageDims :
        img = NoImage /\ Do([NoCall EXCEPT !.op = "blank", !.dimension = d], blank(d))

BlankWithColour ==
    \E d \in ImageDims, c \in Colours :
        img = NoImage /\ Do([NoCall EXCEPT !.op = "blank_with_colour", !.dimension = d,
                          !.colour = c],
           blank_with_colour(d, c))

GetPixel ==
    \E l \in Locs :
        Do([NoCall EXCEPT !.op = "get_pixel", !.loc = l], get_pixel(img, l))

Fill ==
    \E c \in Colours :
        Do([NoCall EXCEPT !.op = "fill", !.colour = c], fill(img, c))

FillRegion ==
    \E r \in Regions, c \in Colours :
        Do([NoCall EXCEPT !.op = "fill_region", !.region = r, !.colour = c],
           fill_region(img, r, c))

CropUnclamped ==
    \E r \in Regions :
        Do([NoCall EXCEPT !.op = "crop_unclamped", !.region = r],
           crop_unclamped(img, r))

Crop ==
    \E r \in Regions :
        Do([NoCall EXCEPT !.op = "crop", !.region = r], crop(img, r))

Overlay ==
    \E o \in OtherImages, l \in Locs :
        Do([NoCall EXCEPT !.op = "overlay", !.other = o, !.loc = l],
           overlay(img, o, l))

\* The documented preconditions of crop_unclamped, in unbounded integers: the
\* corner and the corner plus the dimension both lie inside the image.
crop_unclamped_pre(image, region) ==
    /\ region.l.x < image.width
    /\ region.l.y < image.height
    /\ region.l.x + region.d.w < image.width
    /\ region.l.y + region.d.h < image.height

\* The caller takes the returned image as the receiver of its next call
\* (method chaining); get_pixel only borrows the receiver.  A chain is followed
\* only through calls that respect the documented preconditions.
Return ==
    /\ pc = "done"
    /\ \/ ret.st = "ok"
       \/ call.op = "get_pixel" /\ ret.st = "err"
    /\ call.op = "crop_unclamped" => crop_unclamped_pre(img, call.region)
    /\ pc' = "ready"
    /\ img' = IF call.op = "get_pixel" THEN img ELSE ret.img
    /\ call' = NoCall
    /\ ret' = NoRet
    /\ UNCHANGED build

Next ==
    \/ Blank
    \/ BlankWithColour
    \/ GetPixel
    \/ Fill
    \/ FillRegion
    \/ CropUnclamped
    \/ Crop
    \/ Overlay
    \/ Return

Spec == Init /\ [][Next]_vars

\* ================================================================ claims
Done(o) == pc = "done" /\ call.op = o

\* The Image invariant of the data model: one pixel per location.
WellFormed(image) == Len(image.pixels) = image.width * image.height

\* The pixel stored for location (x, y), row-major.
PixelAt(image, x, y) == image.pixels[x + y * image.width + 1]

\* Region membership in unbounded integers, left-inclusive and right-exclusive.
InRect(x, y, region) ==
    /\ region.l.x <= x
    /\ x < region.l.x + region.d.w
    /\ region.l.y <= y
    /\ y < region.l.y + region.d.h

Min(a, b) == IF a <= b THEN a ELSE b

CornerInside(image, l) == l.x < image.width /\ l.y < image.height

\* The extent overlay is meant to paste: other truncated to the space that
\* remains to the right of and below the offset.
PasteRect(image, other, offset) ==
    MkRegion(offset, MkDim(Min(other.width, image.width - offset.x),
                           Min(other.height, image.height - offset.y)))

\* C1: crop of a region whose corner is inside the image and which does not
\* extend past the far edge (l.x + d.w <= width, l.y + d.h <= height) returns
\* Ok with an image of exactly the requested dimensions.  Stated for regions
\* of positive width and height, which already refute it.
C1_CropKeepsRequestedDims ==
    ( /\ Done("crop")
      /\ WellFormed(img)
      /\ CornerInside(img, call.region.l)
      /\ call.region.d.w > 0
      /\ call.region.d.h > 0
      /\ call.region.l.x + call.region.d.w <= img.width
      /\ call.region.l.y + call.region.d.h <= img.height )
    => /\ ret.st = "ok"
       /\ ret.img.width = call.region.d.w
       /\ ret.img.height = call.region.d.h

\* C2: crop of a region whose corner is inside the image but whose far corner
\* is not returns Ok with an image of the clamped extent
\* (width - l.x, height - l.y); it neither panics nor returns Err.  Stated for
\* regions of positive width and height, which already refute it.
C2_CropClampsToFarEdge ==
    ( /\ Done("crop")
      /\ WellFormed(img)
      /\ CornerInside(img, call.region.l)
      /\ call.region.d.w > 0
      /\ call.region.d.h > 0
      /\ ~CornerInside(img, MkLoc(call.region.l.x + call.region.d.w,
                                  call.region.l.y + call.region.d.h)) )
    => /\ ret.st = "ok"
       /\ ret.img.width = img.width - call.region.l.x
       /\ ret.img.height = img.height - call.region.l.y

\* C3: overlay with an offset inside the receiver completes and returns an
\* image whatever the size of the other image; it never panics.  Stated for
\* other images of positive width and height, which already refute it.
C3_OverlayNeverFails ==
    ( /\ Done("overlay")
      /\ WellFormed(img)
      /\ CornerInside(img, call.loc)
      /\ call.other.width > 0
      /\ call.other.height > 0 )
    => ret.st = "ok"

\* C4: after overlay with an offset inside the receiver, every pixel of the
\* pasted extent equals the other image's pixel at the same relative location.
C4_OverlayPastesOther ==
    ( /\ Done("overlay")
      /\ WellFormed(img)
      /\ CornerInside(img, call.loc)
      /\ ret.st = "ok" )
    => LET r == PasteRect(img, call.other, call.loc)
       IN  \A i \in 0..(r.d.w - 1), j \in 0..(r.d.h - 1) :
              /\ call.loc.x + i + (call.loc.y + j) * ret.img.width
                    < Len(ret.img.pixels)
              /\ PixelAt(ret.img, call.loc.x + i, call.loc.y + j)
                    = PixelAt(call.other, i, j)

\* C5: every image reachable through blank, blank_with_colour, fill,
\* fill_region, crop_unclamped (preconditions met), crop (Ok) and overlay
\* (returned) has exactly width * height pixels.
C5_PixelCountInvariant ==
    /\ WellFormed(img)
    /\ ( /\ pc = "done"
         /\ ret.st = "ok"
         /\ call.op # "get_pixel"
         /\ call.op = "crop_unclamped" => crop_unclamped_pre(img, call.region) )
       => WellFormed(ret.img)

\* C6: crop of a region whose top-left corner is not inside the image returns
\* Err, never a panic, whatever the region's dimensions.
C6_CropCornerOutsideIsErr ==
    ( /\ Done("crop")
      /\ ~CornerInside(img, call.region.l) )
    => ret.st = "err"

C6_Witness ==
    /\ Done("crop")
    /\ WellFormed(img)
    /\ img.width > 0
    /\ img.height > 0
    /\ call.region.l.x >= img.width
    /\ call.region.l.y < img.height
    /\ call.region.d.w = U32Max
    /\ ret.st = "err"

C8_FillRegionExact ==
    ( /\ Done("fill_region")
      /\ WellFormed(img) )
    => /\ ret.st = "ok"
       /\ ret.img.width = img.width
       /\ ret.img.height = img.height
       /\ Len(ret.img.pixels) = Len(img.pixels)
       /\ \A x \in 0..(img.width - 1), y \in 0..(img.height - 1) :
             PixelAt(ret.img, x, y) =
                IF InRect(x, y, call.region)
                THEN call.colour
                ELSE PixelAt(img, x, y)

\* C9: on every reachable image get_pixel returns Err iff the location is
\* outside [0, width) x [0, height); otherwise Ok with the pixel stored at
\* index x + y * width, which is less than the pixel count.
C9_GetPixelTotal ==
    Done("get_pixel")
    => IF CornerInside(img, call.loc)
       THEN /\ ret.st = "ok"
            /\ call.loc.x + call.loc.y * img.width < Len(img.pixels)
            /\ ret.px = PixelAt(img, call.loc.x, call.loc.y)
       ELSE ret.st = "err"

\* C10: when its preconditions hold, crop_unclamped returns an image of
\* dimensions region.d whose pixel at (i, j) is the source pixel at
\* (l.x + i, l.y + j), for a source that has one pixel per location.
C10_CropUnclampedPixels ==
    ( /\ Done("crop_unclamped")
      /\ WellFormed(img)
      /\ crop_unclamped_pre(img, call.region) )
    => /\ ret.st = "ok"
       /\ ret.img.width = call.region.d.w
       /\ ret.img.height = call.region.d.h
       /\ WellFormed(ret.img)
       /\ \A i \in 0..(call.region.d.w - 1), j \in 0..(call.region.d.h - 1) :
             PixelAt(ret.img, i, j)
                = PixelAt(img, call.region.l.x + i, call.region.l.y + j)

C10_Witness ==
    /\ Done("crop_unclamped")
    /\ WellFormed(img)
    /\ crop_unclamped_pre(img, call.region)
    /\ call.region.l.x + call.region.l.y > 0
    /\ ret.st = "ok"
    /\ Len(ret.img.pixels) >= 1
    /\ ret.img.pixels[1] # img.pixels[1]

====
